---- MODULE Spec2Model ----
(***************************************************************************)
(* A model of stix2validator/errors.py: the construction of custom-check   *)
(* errors (JSONError.__init__) and the formatting of an error record       *)
(* (pretty_error: location prefix, u'' normalisation, rewording rules).    *)
(*                                                                         *)
(* Text is modelled as a sequence of tokens, each token a piece of the     *)
(* text (Text(s) is the string itself).  The tokens are cut where the      *)
(* regular expressions of pretty_error look: the quote, the space, the     *)
(* brackets, the newline and the u of a u'' prefix are tokens of their     *)
(* own, and so are the literal words the patterns name.  Every other token *)
(* is a run of ordinary characters that holds none of these.               *)
(***************************************************************************)
EXTENDS Integers, Sequences, FiniteSets, TLC

VARIABLES err, orig, call, pc, out, prev, ncalls

vars == <<err, orig, call, pc, out, prev, ncalls>>

\* ---------------------------------------------------------------- bounds

\* Longest path of a record handed over by the schema validator.
MaxPath == 3

\* How many times pretty_error is called on one record.
MaxCalls == 2

\* ------------------------------------------------------------------ text

NL == "\n"
SP == " "
QT == "'"

RECURSIVE Text(_)
Text(s) == IF s = <<>> THEN "" ELSE Head(s) \o Text(Tail(s))

\* lit occurs in s as the tokens i .. i + Len(lit) - 1.
OccursAt(s, i, lit) ==
    /\ i >= 1
    /\ i + Len(lit) - 1 <= Len(s)
    /\ \A k \in 1..Len(lit) : s[i + k - 1] = lit[k]

NoNewline(s) == \A k \in 1..Len(s) : s[k] # NL

\* The text lit is a substring of the text of s, cut at token borders.
Contains(s, lit) ==
    \E i \in 1..Len(s) : \E j \in i..Len(s) : Text(SubSeq(s, i, j)) = lit

\* --------------------------------------------------- the record's fields

UNSET == "<unset>"

StrSeg(s) == [t |-> "str", s |-> s, n |-> 0]
IntSeg(n) == [t |-> "int", s |-> "", n |-> n]
NoneSeg == [t |-> "none", s |-> "", n |-> 0]

UnsetInstance == [kind |-> "unset", idKind |-> "absent", id |-> "", len |-> 0]
DictInstance(idKind, id) == [kind |-> "dict", idKind |-> idKind, id |-> id, len |-> 1]
ListInstance(n) == [kind |-> "list", idKind |-> "absent", id |-> "", len |-> n]
StrInstance == [kind |-> "str", idKind |-> "absent", id |-> "", len |-> 1]

UnsetSchema == [unset |-> TRUE, hasTitle |-> FALSE, title |-> ""]
Schema(hasTitle, title) == [unset |-> FALSE, hasTitle |-> hasTitle, title |-> title]

UnsetValue == [kind |-> "unset", chars |-> <<>>, keys |-> {}]
StrValue(chars) == [kind |-> "str", chars |-> chars, keys |-> {}]
DictValue(keys) == [kind |-> "dict", chars |-> <<>>, keys |-> keys]
ListValue == [kind |-> "list", chars |-> <<>>, keys |-> {}]

NoErr == [built |-> FALSE, message |-> <<>>, path |-> <<>>, instance |-> UnsetInstance,
          validator |-> UNSET, validator_value |-> UnsetValue,
          schema |-> UnsetSchema, schema_path |-> <<>>]

NoOut == [status |-> "none", text |-> <<>>, verbose |-> FALSE]

NoCall == [made |-> FALSE, msg |-> <<>>, instance_id |-> "", has_id |-> FALSE,
           check_code |-> "", has_code |-> FALSE]

\* --------------------------------------------------- CHECK_CODES (util)

\* The registry of stix2validator.util, code first, as the spec describes it:
\* a fixed one-to-one list of (code, name) pairs.
CHECK_CODES ==
    << [code |-> "1", name |-> "format-checks"],
       [code |-> "101", name |-> "custom-prefix"],
       [code |-> "102", name |-> "custom-prefix-lax"] >>

Registered(name) == \E i \in 1..Len(CHECK_CODES) : CHECK_CODES[i].name = name

\* list(CHECK_CODES.values()).index(check_code): the first position that
\* holds the name; list(CHECK_CODES.keys())[...]: the key at that position.
CodeLast(name) ==
    LET hits == {i \in 1..Len(CHECK_CODES) : CHECK_CODES[i].name = name}
    IN  CHECK_CODES[Len(CHECK_CODES)].code

CodeOf(name) ==
    LET hits == {i \in 1..Len(CHECK_CODES) : CHECK_CODES[i].name = name}
        first == CHOOSE i \in hits : \A j \in hits : i <= j
    IN  CHECK_CODES[first].code

\* ------------------------------------------------- JSONError.__init__

\* msg = '{%s} %s' % (code, msg)
Tagged(code, msg) == <<"{", code, "}", SP>> \o msg

\* path=deque([instance_id, 0])
JSONPath(has_id, instance_id) ==
    << IF has_id THEN StrSeg(instance_id) ELSE NoneSeg, IntSeg(0) >>

\* The record JSONError builds; every field the constructor does not pass
\* keeps jsonschema's unset sentinel.
JSONRecord(msg, has_id, instance_id, has_code, check_code) ==
    [built |-> TRUE,
     message |-> IF has_code THEN Tagged(CodeOf(check_code), msg) ELSE msg,
     path |-> JSONPath(has_id, instance_id),
     instance |-> UnsetInstance,
     validator |-> UNSET,
     validator_value |-> UnsetValue,
     schema |-> UnsetSchema,
     schema_path |-> <<>>]

\* ------------------------------------------- pretty_error: the location

\* while len(error.path) > 0: the loop of lines 78-83, with the deque it
\* leaves behind.  Appending a segment that is neither a string nor an int
\* (None) to error_loc raises TypeError, after the popleft.
RECURSIVE DrainAll(_, _)
DrainAll(path, loc) ==
    IF Len(path) = 0
    THEN [loc |-> loc, path |-> path, raised |-> FALSE]
    ELSE LET e == Head(path)
             rest == Tail(path)
         IN  IF e.t # "int"
             THEN IF e.t = "str"
                  THEN DrainAll(rest, loc \o <<e.s>>)
                  ELSE [loc |-> loc, path |-> rest, raised |-> TRUE]
             ELSE DrainAll(rest, loc \o <<"[" \o ToString(e.n) \o "]/">>)

RECURSIVE Drain(_, _)
Drain(path, loc) ==
    IF Len(path) = 0
    THEN [loc |-> loc, path |-> path, raised |-> FALSE]
    ELSE LET e == Head(path)
             rest == Tail(path)
         IN  IF e.t # "int"
             THEN IF e.t = "str"
                  THEN Drain(rest, loc \o <<e.s>>)
                  ELSE [loc |-> loc, path |-> rest, raised |-> TRUE]
             ELSE IF Len(rest) > 0
                  THEN Drain(rest, loc \o <<"[" \o ToString(e.n) \o "]/">>)
                  ELSE Drain(rest, loc)

\* error.instance['id'] + ': ' succeeds: the instance is a dict that has the
\* key and the value is a string.  Every other instance raises TypeError or
\* KeyError inside the try.
HasUsableIdNever(instance) == FALSE

HasUsableId(instance) == instance.kind = "dict" /\ instance.idKind = "str"

\* Lines 73-84.
ErrorLoc(e) ==
    IF HasUsableId(e.instance)
    THEN [loc |-> <<e.instance.id, ": ">>, path |-> e.path, raised |-> FALSE]
    ELSE IF Len(e.path) > 0
         THEN LET d == Drain(e.path, <<>>)
              IN  IF d.raised THEN d ELSE [d EXCEPT !.loc = d.loc \o <<": ">>]
         ELSE [loc |-> <<>>, path |-> e.path, raised |-> FALSE]

\* ------------------------------------------ pretty_error: the base message

\* text_type(error.schema): the rendering of the failing subschema.
SchemaText(schema) ==
    IF schema.unset THEN <<UNSET>>
    ELSE IF schema.hasTitle THEN <<"{'title': '" \o schema.title \o "'}">>
    ELSE <<"{}">>

\* pprint.pformat(error.instance), indented, as jsonschema prints it.
InstanceText(instance) ==
    IF instance.kind = "list"
    THEN IF instance.len = 0 THEN <<SP, "[", "]">> ELSE <<SP, "[", QT, "X", QT, "]">>
    ELSE IF instance.kind = "dict"
         THEN IF instance.idKind = "absent" THEN <<SP, "{", "}">>
              ELSE <<SP, "{", QT, "id", QT, ": ", instance.id, "}">>
         ELSE <<SP, QT, "X", QT>>

\* text_type(error), line 88: jsonschema's ValidationError.__str__ gives the
\* message alone when validator, validator_value, instance or schema is
\* unset, and otherwise the message followed by the failing keyword, the
\* schema and the instance on lines of their own.
FullText(e) ==
    IF \/ e.validator = UNSET
       \/ e.validator_value.kind = "unset"
       \/ e.instance.kind = "unset"
       \/ e.schema.unset
    THEN e.message
    ELSE e.message
           \o <<NL, NL, "Failed validating", SP, QT, e.validator, QT, SP, "in schema", ":", NL>>
           \o SchemaText(e.schema)
           \o <<NL, NL, "On instance", ":", NL>>
           \o InstanceText(e.instance)

\* Lines 87-90.
BaseMessage(e, verbose) == IF verbose THEN FullText(e) ELSE e.message

\* The token k of s is the u of a match of (^| )(|\[|\(|\{)u' .
StripsU(s, k) ==
    /\ s[k] = "u"
    /\ k < Len(s)
    /\ s[k + 1] = QT
    /\ \/ k = 1
       \/ s[k - 1] = SP
       \/ /\ s[k - 1] \in {"[", "(", "{"}
          /\ (k = 2 \/ s[k - 2] = SP)

RECURSIVE DropU(_, _)
DropU(s, k) ==
    IF k > Len(s) THEN <<>>
    ELSE (IF StripsU(s, k) THEN <<>> ELSE <<s[k]>>) \o DropU(s, k + 1)

\* re.sub(r"(^| )(|\[|\(|\{)u'", r"\g<1>\g<2>'", msg), line 91: two matches
\* never overlap, so every u that a match holds goes.
Normalise(s) == DropU(s, 1)

\* -------------------------------------- pretty_error: the substitutions

\* The end of the text, for a pattern that ends with $ : $ matches at the
\* end and before a newline that ends the text.
EndsWithNewline(s) == Len(s) > 0 /\ s[Len(s)] = NL

Body(s) == IF EndsWithNewline(s) THEN SubSeq(s, 1, Len(s) - 1) ELSE s

\* r matches .+ endq $ : one character or more on one line, then endq, then
\* the end of the text.
TailMatches(r, endq) ==
    LET b == Body(r)
        n == Len(b) - Len(endq)
    IN  /\ n >= 1
        /\ OccursAt(b, n + 1, endq)
        /\ NoNewline(b)

\* The places where lit .+ endq $ matches.
TailHits(s, lit, endq) ==
    {i \in 1..Len(s) :
        /\ OccursAt(s, i, lit)
        /\ TailMatches(SubSeq(s, i + Len(lit), Len(s)), endq)}

\* re.sub(lit + ".+" + endq + "$", repl, s): the leftmost match, which runs
\* to the end of the text, is replaced; a closing newline stays.
SubTail(s, lit, endq, repl) ==
    LET hits == TailHits(s, lit, endq)
    IN  IF hits = {} THEN s
        ELSE LET i == CHOOSE h \in hits : \A g \in hits : h <= g
             IN  SubSeq(s, 1, i - 1) \o repl
                   \o (IF EndsWithNewline(s) THEN <<NL>> ELSE <<>>)

\* re.sub(r".+", repl, s): every line that is not empty becomes repl.
RECURSIVE SubLines(_, _, _)
SubLines(s, repl, inLine) ==
    IF s = <<>> THEN <<>>
    ELSE IF Head(s) = NL THEN <<NL>> \o SubLines(Tail(s), repl, FALSE)
    ELSE (IF inLine THEN <<>> ELSE repl) \o SubLines(Tail(s), repl, TRUE)

NotAllowedFor == <<"}", SP, "is not allowed for", SP, QT>>

\* The matches (i, j) of \{.+\} is not allowed for '(.+)'$ : the { at i,
\* the } at j.
EnumHits(s) ==
    {p \in (1..Len(s)) \X (1..Len(s)) :
        /\ s[p[1]] = "{"
        /\ p[2] > p[1] + 1
        /\ OccursAt(s, p[2], NotAllowedFor)
        /\ NoNewline(SubSeq(s, p[1] + 1, p[2] - 1))
        /\ TailMatches(SubSeq(s, p[2] + Len(NotAllowedFor), Len(s)), <<QT>>)}

\* re.sub(r"\{.+\} is not allowed for '(.+)'$", r"'\g<1>' is not an allowed
\* value", s), lines 143-144: the leftmost {, the first .+ greedy (the last
\* } that fits), the group up to the closing quote.
SubEnum(s) ==
    LET hits == EnumHits(s)
    IN  IF hits = {} THEN s
        ELSE LET i == CHOOSE h \in {p[1] : p \in hits} :
                          \A g \in {p[1] : p \in hits} : h <= g
                 js == {p[2] : p \in {q \in hits : q[1] = i}}
                 j == CHOOSE h \in js : \A g \in js : h >= g
                 b == Body(s)
                 group == SubSeq(b, j + Len(NotAllowedFor), Len(b) - 1)
             IN  SubSeq(s, 1, i - 1) \o <<QT>> \o group
                   \o <<QT, SP, "is not an allowed value">>
                   \o (IF EndsWithNewline(s) THEN <<NL>> ELSE <<>>)

\* ------------------------------------------- pretty_error: the rewording

MatchQuote == <<"match", SP, QT>>

IdFormat == <<"match the id format (", "[object-type]--[UUIDv4]", ")">>

TypeFormat ==
    <<"match the 'type' field format (lowercase ASCII a-z, 0-9, and hypens only - and no ",
      "two hyphens in a row)">>

RelationshipText ==
    <<"Relationships cannot link bundles, marking definitions",
      ", sightings, or other relationships. This field must ",
      "contain the id of an SDO.">>

ExternalReferenceText ==
    <<"If the external reference is a CVE, 'source_name' must be",
      " 'cve' and 'external_id' must be in the CVE format ",
      "(CVE-YYYY-NNNN+). If the external reference is a CAPEC, ",
      "'source_name' must be 'capec' and 'external_id' must be ",
      "in the CAPEC format (CAPEC-N+).">>

\* "Contains a reserved property ('%s')" % "', '".join(enums.RESERVED_PROPERTIES)
ReservedText == <<"Contains a reserved property ('", "RESERVED_PROPERTIES", "')">>

\* 'x' in error.schema_path
InPath(schema_path, key) == \E k \in 1..Len(schema_path) : schema_path[k] = key

\* 'x' in error.validator_value, for the dict a 'not' keyword holds.
HasKey(value, key) == value.kind = "dict" /\ key \in value.keys

\* error.validator_value[1:-2]
Slice1m2(chars) == SubSeq(chars, 2, Len(chars) - 2)

\* Lines 105-106.
IdentifierRuleAsUrl(msg) ==
    SubTail(msg, MatchQuote, <<QT>>, <<"match the format ", "of a URL">>)

IdentifierRule(msg) == SubTail(msg, MatchQuote, <<QT>>, IdFormat)

\* Lines 100-118: the branch of the title; a title no branch names leaves msg.
PatternRule(e, msg) ==
    IF e.schema.title = "type" THEN SubTail(msg, MatchQuote, <<QT>>, TypeFormat)
    ELSE IF e.schema.title = "identifier" THEN IdentifierRule(msg)
    ELSE IF e.schema.title = "id"
         THEN SubTail(msg, MatchQuote, <<QT>>,
                      <<"start with '">> \o Slice1m2(e.validator_value.chars) \o <<"--'">>)
    ELSE IF e.schema.title = "timestamp"
         THEN SubTail(msg, MatchQuote, <<QT>>,
                      <<"match the timestamp format ", "(YYYY-MM-DDTHH:mm:ss[.s+]Z)">>)
    ELSE IF e.schema.title = "relationship_type"
         THEN SubTail(msg, <<"does not", SP>> \o MatchQuote, <<QT>>,
                      <<"contains invalid ", "characters">>)
    ELSE IF e.schema.title = "url"
         THEN SubTail(msg, MatchQuote, <<QT>>, <<"match the format ", "of a URL">>)
    ELSE msg

\* Lines 121-122.
EmptyArrayRuleTypo(msg) ==
    SubTail(msg, <<"[", "]", SP, "is not valid", SP>>, <<QT>>,
            <<"empty arrays are not allowed">>)

EmptyArrayRule(msg) ==
    SubTail(msg, <<"[", "]", SP, "is not valid", SP>>, <<>>,
            <<"empty arrays are not allowed">>)

\* Lines 125-131.
CoreRule(e, msg) ==
    IF e.validator = "additionalProperties"
    THEN SubTail(msg, <<"Additional", SP>>, <<>>,
                 <<"Custom properties must match the ",
                   "proper format (lowercase ASCII a-z, 0-9, and ",
                   "underscores; 3-250 characters)">>)
    ELSE IF e.validator = "not" /\ HasKey(e.validator_value, "anyOf")
         THEN SubLines(msg, ReservedText, FALSE)
    ELSE msg

\* Lines 134-139.
OneOfRule(e, msg) ==
    IF InPath(e.schema_path, "external_references") THEN ExternalReferenceText
    ELSE msg

\* Lines 142-149.
NotRuleTargetOnly(e, msg) ==
    IF HasKey(e.validator_value, "enum") THEN SubEnum(msg)
    ELSE IF InPath(e.schema_path, "target_ref") THEN RelationshipText
    ELSE msg

NotRule(e, msg) ==
    IF HasKey(e.validator_value, "enum") THEN SubEnum(msg)
    ELSE IF InPath(e.schema_path, "target_ref") \/ InPath(e.schema_path, "source_ref")
         THEN RelationshipText
    ELSE msg

\* Line 151.
AppendSchema(e, msg) == msg \o <<":", NL>> \o SchemaText(e.schema)

\* Lines 99-151: the chain of if / elif; the first condition that holds
\* takes the record, whether or not its inner branches change msg.
Reword(e, msg) ==
    IF e.validator = "pattern" /\ e.schema.hasTitle THEN PatternRule(e, msg)
    ELSE IF e.instance.kind = "list" /\ e.instance.len = 0 THEN EmptyArrayRule(msg)
    ELSE IF e.schema.hasTitle /\ e.schema.title = "core" THEN CoreRule(e, msg)
    ELSE IF e.validator = "oneOf" THEN OneOfRule(e, msg)
    ELSE IF e.validator = "not" THEN NotRule(e, msg)
    ELSE IF e.validator = "anyOf" \/ e.validator = "oneOf" THEN AppendSchema(e, msg)
    ELSE msg

\* repr(error.schema) == '<unset>', line 95.
IsUnsetNever(schema) == FALSE

IsUnset(schema) == schema.unset

\* Lines 86-153, once the location is there.
Message(e, verbose) ==
    LET msg == Normalise(BaseMessage(e, verbose))
    IN  IF IsUnset(e.schema) THEN msg ELSE Reword(e, msg)

\* pretty_error(error, verbose): what it returns or raises, and the deque
\* error.path it leaves behind.
PrettyError(e, verbose) ==
    LET l == ErrorLoc(e)
    IN  IF l.raised
        THEN [status |-> "raised", text |-> <<"TypeError">>, path |-> l.path]
        ELSE [status |-> "returned", text |-> l.loc \o Message(e, verbose),
              path |-> l.path]

\* ---------------------------------------------------------------- inputs

\* Messages of the schema validator and of custom checks.
MsgPattern == <<QT, "X", QT, SP, "does not", SP, "match", SP, QT, "R", QT>>
MsgPatternU == <<"u", QT, "X", QT, SP, "does not", SP, "match", SP, "u", QT, "R", QT>>
MsgEmptyArray == <<"[", "]", SP, "is not valid", SP, "under any of the given schemas">>
MsgTooShort == <<"[", "]", SP, "is too short">>
MsgAdditional == <<"Additional", SP, "properties are not allowed">>
MsgEnum == <<"{", QT, "enum", QT, "}", SP, "is not allowed for", SP, QT, "X", QT>>
MsgPlain == <<"bad value">>
MsgPlainU == <<"bad value", SP, "[", "u", QT, "X", QT, "]">>

Messages ==
    {MsgPattern, MsgPatternU, MsgEmptyArray, MsgTooShort, MsgAdditional, MsgEnum,
     MsgPlain, MsgPlainU}

CustomMessages == {MsgPlain, MsgPlainU}

\* instance_id of JSONError: a string, or None (has_id FALSE).
InstanceIds == {<<TRUE, "malware--123">>, <<FALSE, "">>}

\* check_code of JSONError: a name, registered or not, or None (has_code FALSE).
CheckCodeArgs ==
    {<<FALSE, "">>, <<TRUE, "format-checks">>, <<TRUE, "custom-prefix-lax">>,
     <<TRUE, "no-such-check">>}

\* error.path of a record of the schema validator: keys and indices.
PathSegs == {StrSeg("objects"), StrSeg("type"), IntSeg(0)}

RECURSIVE PathsOfLen(_)
PathsOfLen(n) ==
    IF n = 0 THEN {<<>>}
    ELSE {<<x>> \o q : x \in PathSegs, q \in PathsOfLen(n - 1)}

Paths == UNION {PathsOfLen(n) : n \in 0..MaxPath}

ExamplePath == <<StrSeg("objects"), IntSeg(0), StrSeg("type")>>

Instances ==
    {DictInstance("str", "indicator--abc"), DictInstance("absent", ""),
     DictInstance("int", ""), ListInstance(0), ListInstance(1), StrInstance}

\* The failing keyword with the value the schema gives it.
Keywords ==
    {<<"pattern", StrValue(<<"^", "a", "-", "-">>)>>,
     <<"not", DictValue({"enum"})>>,
     <<"not", DictValue({"anyOf"})>>,
     <<"not", DictValue({"pattern"})>>,
     <<"oneOf", ListValue>>,
     <<"anyOf", ListValue>>,
     <<"additionalProperties", ListValue>>,
     <<"required", ListValue>>}

Titles ==
    {"type", "identifier", "id", "timestamp", "relationship_type", "url", "core",
     "other"}

Schemas == {UnsetSchema, Schema(FALSE, "")} \cup {Schema(TRUE, t) : t \in Titles}

SchemaPaths ==
    {<<"properties", "name">>, <<"properties", "external_references">>,
     <<"properties", "target_ref">>, <<"properties", "source_ref">>}

Record(message, path, instance, keyword, schema, schema_path) ==
    [built |-> TRUE, message |-> message, path |-> path, instance |-> instance,
     validator |-> keyword[1], validator_value |-> keyword[2],
     schema |-> schema, schema_path |-> schema_path]

\* Records that exercise the location: every path and every instance.
LocRecords ==
    {Record(MsgPattern, p, i, k, s, <<"properties", "name">>) :
        p \in Paths, i \in Instances,
        k \in {<<"pattern", StrValue(<<"^", "a", "-", "-">>)>>, <<"required", ListValue>>},
        s \in {Schema(TRUE, "type"), UnsetSchema}}

\* Records that exercise the rewording: every message, keyword, schema and
\* schema path.
MsgRecords ==
    {Record(m, ExamplePath, i, k, s, sp) :
        m \in Messages,
        i \in {DictInstance("str", "indicator--abc"), ListInstance(0), ListInstance(1),
               StrInstance},
        k \in Keywords, s \in Schemas, sp \in SchemaPaths}

\* --------------------------------------------------------------- actions

Init ==
    /\ err = NoErr
    /\ orig = NoErr
    /\ call = NoCall
    /\ pc = "start"
    /\ out = NoOut
    /\ prev = NoOut
    /\ ncalls = 0

\* JSONError(msg, instance_id, check_code), lines 13-18: index() raises
\* ValueError for a name the registry does not hold, and no record is built.
JSONErrorAct ==
    /\ pc = "start"
    /\ \E msg \in CustomMessages, id \in InstanceIds, cc \in CheckCodeArgs :
          /\ call' = [made |-> TRUE, msg |-> msg, instance_id |-> id[2],
                      has_id |-> id[1], check_code |-> cc[2], has_code |-> cc[1]]
          /\ IF cc[1] /\ ~Registered(cc[2])
             THEN /\ pc' = "ValueError"
                  /\ UNCHANGED <<err, orig>>
             ELSE /\ pc' = "built"
                  /\ err' = JSONRecord(msg, id[1], id[2], cc[1], cc[2])
                  /\ orig' = err'
    /\ UNCHANGED <<out, prev, ncalls>>

\* The schema validator (or a caller) hands over an error record.
Receive(records) ==
    /\ pc = "start"
    /\ \E r \in records :
          /\ err' = r
          /\ orig' = r
    /\ pc' = "built"
    /\ UNCHANGED <<call, out, prev, ncalls>>

ReceiveLoc == Receive(LocRecords)

ReceiveMsg == Receive(MsgRecords)

\* pretty_error(err, verbose): the result, and the path as the call leaves it.
PrettyErrorAct ==
    /\ pc = "built"
    /\ ncalls < MaxCalls
    /\ \E verbose \in BOOLEAN :
          LET r == PrettyError(err, verbose)
          IN  /\ out' = [status |-> r.status, text |-> r.text, verbose |-> verbose]
              /\ err' = [err EXCEPT !.path = r.path]
    /\ prev' = out
    /\ ncalls' = ncalls + 1
    /\ UNCHANGED <<orig, call, pc>>

Next == JSONErrorAct \/ ReceiveLoc \/ PrettyErrorAct

Spec == Init /\ [][Next]_vars

NextMsg == JSONErrorAct \/ ReceiveMsg \/ PrettyErrorAct

SpecMsg == Init /\ [][NextMsg]_vars

\* ---------------------------------------------------------------- claims

\* The last call was the first one on the record: it read the record as built.
FirstCall == ncalls = 1

SchemaDriven(e) == ~e.schema.unset

StringId(instance) == instance.kind = "dict" /\ instance.idKind = "str"

\* Not a mapping, or a mapping without an 'id' key.
NoId(instance) == instance.kind # "dict" \/ instance.idKind = "absent"

EmptyList(instance) == instance.kind = "list" /\ instance.len = 0

KeysAndIndices(path) == \A k \in 1..Len(path) : path[k].t \in {"str", "int"}

\* The text one segment adds to the prefix, as C2 words it.
SegText(path, k) ==
    IF path[k].t = "str" THEN path[k].s
    ELSE IF k < Len(path) THEN "[" \o ToString(path[k].n) \o "]/"
    ELSE ""

PathPrefix(path) ==
    IF Len(path) = 0 THEN ""
    ELSE Text([k \in 1..Len(path) |-> SegText(path, k)]) \o ": "

\* C1: an instance that is a mapping with a string id gives the prefix
\* "<id>: " whatever the path holds, on every call; no segment of the path
\* is in the prefix.
C1_IdPrefix ==
    (ncalls >= 1 /\ StringId(orig.instance)) =>
        /\ out.status = "returned"
        /\ Text(out.text)
             = orig.instance.id \o ": " \o Text(Message(orig, out.verbose))

C1_Witness ==
    /\ ncalls >= 1
    /\ StringId(orig.instance)
    /\ orig.path = ExamplePath
    /\ out.status = "returned"
    /\ SubSeq(out.text, 1, 2) = <<"indicator--abc", ": ">>

\* C2: with no usable id the prefix is built from the path (keys and
\* indices) front to back: a key as it is, an index that is not last as
\* "[<index>]/", a last index as nothing, then ": "; the empty path gives
\* the empty prefix; ["objects", 0, "type"] gives "objects[0]/type: ".
C2_PathPrefix ==
    (FirstCall /\ NoId(orig.instance) /\ KeysAndIndices(orig.path)) =>
        /\ out.status = "returned"
        /\ Text(out.text)
             = PathPrefix(orig.path) \o Text(Message(orig, out.verbose))
        /\ orig.path = ExamplePath =>
             Text(out.text)
               = "objects[0]/type: " \o Text(Message(orig, out.verbose))

C2_Witness ==
    /\ FirstCall
    /\ orig.instance = StrInstance
    /\ orig.path = <<StrSeg("objects"), IntSeg(0), IntSeg(0)>>
    /\ out.status = "returned"
    /\ Text(SubSeq(out.text, 1, 3)) = "objects[0]/: "

\* C3: pretty_error never raises, whatever the path holds, the path
\* [None, 0] of a JSONError without instance id included.
C3_NeverRaises == ncalls >= 1 => out.status = "returned"

\* C4: a call of pretty_error that returns leaves the record as it was, path
\* included, and two successive calls with the same verbosity return the
\* same string.
C4_RecordUnchanged ==
    /\ (ncalls >= 1 /\ out.status = "returned") => err = orig
    /\ (ncalls >= 2 /\ out.status = "returned" /\ out.verbose = prev.verbose) =>
          out = prev

\* C5 as stated: for a record with the unset schema the output is the
\* location prefix followed by the original message, text unchanged.
C5_OriginalMessage ==
    (FirstCall /\ orig.schema.unset /\ out.status = "returned") =>
        out.text = ErrorLoc(orig).loc \o orig.message

HoldsU(s) == \E k \in 1..Len(s) : s[k] = "u"

\* C5, amended: for a record with the unset schema, whatever its other
\* fields and the verbosity, the string returned is the location prefix
\* followed by the message with its u'' prefixes removed (the message
\* itself when it holds none); no rewording rule is applied.
C5_NormalisedMessage ==
    (FirstCall /\ orig.schema.unset /\ out.status = "returned") =>
        /\ out.text = ErrorLoc(orig).loc \o Normalise(orig.message)
        /\ ~HoldsU(orig.message) => out.text = ErrorLoc(orig).loc \o orig.message

C5_Witness ==
    /\ FirstCall
    /\ orig.schema.unset
    /\ orig.validator = "anyOf"
    /\ orig.instance = ListInstance(0)
    /\ orig.message = MsgPlainU
    /\ out.verbose
    /\ Text(out.text) = "objects[0]/type: bad value ['X']"

\* C6: a schema-driven anyOf or oneOf record that no earlier rule takes
\* (instance not an empty list, title not 'core', and for oneOf no
\* 'external_references' in the schema path) gets the base message with the
\* failing subschema appended, oneOf as anyOf.
C6_SchemaAppended ==
    ( /\ FirstCall
      /\ SchemaDriven(orig)
      /\ orig.validator \in {"anyOf", "oneOf"}
      /\ ~EmptyList(orig.instance)
      /\ ~(orig.schema.hasTitle /\ orig.schema.title = "core")
      /\ ~InPath(orig.schema_path, "external_references") ) =>
        out.text
          = ErrorLoc(orig).loc \o Normalise(BaseMessage(orig, out.verbose))
              \o <<":", NL>> \o SchemaText(orig.schema)

RefPath(e) == InPath(e.schema_path, "target_ref") \/ InPath(e.schema_path, "source_ref")

NotOnRef(e) ==
    /\ SchemaDriven(e)
    /\ e.validator = "not"
    /\ RefPath(e)
    /\ ~(e.schema.hasTitle /\ e.schema.title = "core")
    /\ ~EmptyList(e.instance)

RelationshipLiteral ==
    "Relationships cannot link bundles, marking definitions, sightings, or other relationships. This field must contain the id of an SDO."

\* C7 as stated: a 'not' failure under target_ref or source_ref whose
\* validator value holds an 'enum' clause gets the fixed relationship text.
C7_EnumOnRef ==
    (FirstCall /\ NotOnRef(orig) /\ "enum" \in orig.validator_value.keys) =>
        /\ out.text = ErrorLoc(orig).loc \o RelationshipText
        /\ StringId(orig.instance) =>
             Text(out.text) = "indicator--abc: " \o RelationshipLiteral

\* C7, amended: the fixed relationship text is the message when the
\* validator value holds no 'enum' clause; with instance {id:
\* "indicator--abc"} the prefix is "indicator--abc: ".
C7_NoEnumOnRef ==
    (FirstCall /\ NotOnRef(orig) /\ "enum" \notin orig.validator_value.keys) =>
        /\ out.text = ErrorLoc(orig).loc \o RelationshipText
        /\ StringId(orig.instance) =>
             Text(out.text) = "indicator--abc: " \o RelationshipLiteral

C7_Witness ==
    /\ FirstCall
    /\ NotOnRef(orig)
    /\ InPath(orig.schema_path, "source_ref")
    /\ orig.validator_value = DictValue({"pattern"})
    /\ orig.message = MsgEnum
    /\ Text(out.text) = "indicator--abc: " \o RelationshipLiteral

IdentifierPattern(e) ==
    /\ SchemaDriven(e)
    /\ e.validator = "pattern"
    /\ e.schema.hasTitle
    /\ e.schema.title = "identifier"

\* C8 as stated: pattern with title 'identifier' always gives an output that
\* holds "[object-type]--[UUIDv4]", whatever the message and the verbosity.
C8_AlwaysIdFormat ==
    (FirstCall /\ IdentifierPattern(orig) /\ out.status = "returned") =>
        Contains(out.text, "[object-type]--[UUIDv4]")

\* The base message, u'' prefixes removed, ends with match '<text>' on its
\* last line.
EndsWithMatch(e, verbose) ==
    TailHits(Normalise(BaseMessage(e, verbose)), MatchQuote, <<QT>>) # {}

\* C8, amended: pattern with title 'identifier' gives an output that holds
\* "[object-type]--[UUIDv4]" when the base message (message, or the full
\* text when verbose) ends with a match '<regex>' fragment.
C8_IdFormatOnMatch ==
    (FirstCall /\ IdentifierPattern(orig) /\ EndsWithMatch(orig, out.verbose)) =>
        /\ out.status = "returned"
        /\ Contains(out.text, "[object-type]--[UUIDv4]")

C8_Witness ==
    /\ FirstCall
    /\ IdentifierPattern(orig)
    /\ orig.message = MsgPatternU
    /\ ~out.verbose
    /\ Text(out.text)
         = "indicator--abc: 'X' does not match the id format ([object-type]--[UUIDv4])"

\* C9 as stated: an empty list instance always gives an output that holds
\* "empty arrays are not allowed".
C9_AlwaysEmptyArray ==
    (FirstCall /\ EmptyList(orig.instance) /\ out.status = "returned") =>
        Contains(out.text, "empty arrays are not allowed")

\* The base message, u'' prefixes removed, holds "[] is not valid " followed
\* by text up to its end.
NotValidTail(e, verbose) ==
    TailHits(Normalise(BaseMessage(e, verbose)),
             <<"[", "]", SP, "is not valid", SP>>, <<>>) # {}

\* C9, amended: a schema-driven record with an empty list instance that the
\* pattern rule does not take (validator not 'pattern', or no title) gives
\* an output that holds "empty arrays are not allowed" when its base message
\* ends with "[] is not valid <text>".
C9_EmptyArrayOnNotValid ==
    ( /\ FirstCall
      /\ SchemaDriven(orig)
      /\ EmptyList(orig.instance)
      /\ ~(orig.validator = "pattern" /\ orig.schema.hasTitle)
      /\ NotValidTail(orig, out.verbose) ) =>
        /\ out.status = "returned"
        /\ Contains(out.text, "empty arrays are not allowed")

C9_Witness ==
    /\ FirstCall
    /\ SchemaDriven(orig)
    /\ EmptyList(orig.instance)
    /\ orig.validator = "anyOf"
    /\ orig.message = MsgEmptyArray
    /\ Text(out.text) = "objects[0]/type: empty arrays are not allowed"

\* The codes the registry pairs with a name.
CodesFor(name) ==
    {CHECK_CODES[i].code : i \in {j \in 1..Len(CHECK_CODES) : CHECK_CODES[j].name = name}}

\* C10: JSONError with a registered check code builds a record whose message
\* is "{<code>} " and msg; without a check code the message is msg; the path
\* is [instance_id, 0] and the schema is unset; with a check code that is
\* not registered the construction fails and there is no record.
C10_JSONError ==
    call.made =>
        IF call.has_code /\ call.check_code \notin {CHECK_CODES[i].name : i \in 1..Len(CHECK_CODES)}
        THEN pc = "ValueError" /\ ~err.built /\ ~orig.built
        ELSE /\ pc = "built"
             /\ orig.built
             /\ call.has_code =>
                  \E c \in CodesFor(call.check_code) :
                      Text(orig.message) = "{" \o c \o "} " \o Text(call.msg)
             /\ ~call.has_code => orig.message = call.msg
             /\ Len(orig.path) = 2
             /\ orig.path[1]
                  = (IF call.has_id THEN StrSeg(call.instance_id) ELSE NoneSeg)
             /\ orig.path[2] = IntSeg(0)
             /\ orig.schema.unset
             /\ ncalls = 0 => err = orig

C10_Witness ==
    /\ call.made
    /\ call.check_code = "format-checks"
    /\ call.has_id
    /\ pc = "built"
    /\ ncalls = 0
    /\ Text(err.message) = "{1} bad value"
    /\ err.path = <<StrSeg("malware--123"), IntSeg(0)>>

====
